---- MODULE Spec2Model ----
(***************************************************************************)
(* The age plugin client (internal/plugin/client.go): one call of          *)
(* Recipient.Wrap or Identity.Unwrap against a plugin child process.       *)
(* The plugin is the environment: it chooses the stanzas the client reads, *)
(* when reads and writes fail, and when (and how) the process exits.       *)
(***************************************************************************)
EXTENDS Integers, Sequences, FiniteSets, TLC

\* Largest number of stanzas the plugin sends that keep the read loop going.
MaxReads == 2

\* Largest number of header stanzas handed to Identity.Unwrap.
MaxHeader == 2

(***************************************************************************)
(* Go values.                                                              *)
(***************************************************************************)

\* A []byte: Go distinguishes the nil slice from an empty, non-nil one.
NilBytes == [nil |-> TRUE, data |-> << >>]

Bytes(d) == [nil |-> FALSE, data |-> d]

len(b) == Len(b.data)

\* A format.Stanza / age.Stanza: Type, Args, Body.
Stanza(t, a, b) == [Type |-> t, Args |-> a, Body |-> b]

\* &format.Stanza{Type: t}: Args and Body are left at their zero value.
TypeOnly(t) == Stanza(t, << >>, NilBytes)

\* An error value: its text (a sequence of pieces) and the sentinel errors
\* errors.Is finds by unwrapping it.
NoErr == [set |-> FALSE, msg |-> << >>, is |-> {}]

Lit(s) == [lit |-> s, raw |-> << >>]

Raw(d) == [lit |-> "", raw |-> d]

\* fmt.Errorf / errors.New with a fixed text.
Errorf(s) == [set |-> TRUE, msg |-> <<Lit(s)>>, is |-> {}]

\* age.ErrIncorrectIdentity, a sentinel.
ErrIncorrectIdentity ==
    [set |-> TRUE, msg |-> <<Lit("incorrect identity for recipient block")>>,
     is |-> {"ErrIncorrectIdentity"}]

\* fmt.Errorf(prefix + "%v", e): the text is kept, the chain is not.
WrapV(prefix, e) == [set |-> TRUE, msg |-> prefix \o e.msg, is |-> {}]

\* fmt.Errorf(prefix + "%w", e): the text is kept and e stays reachable.
WrapW(prefix, e) == [set |-> TRUE, msg |-> prefix \o e.msg, is |-> e.is]

\* errors.Is(e, age.ErrIncorrectIdentity)
IsIncorrectIdentity(e) == "ErrIncorrectIdentity" \in e.is

\* One byte under %q: the quote, the backslash and the newline are escaped,
\* every other byte the model uses is printable ASCII and stands for itself.
EscapeByte(c) ==
    IF c = 34 THEN <<92, 34>>
    ELSE IF c = 92 THEN <<92, 92>>
    ELSE IF c = 10 THEN <<92, 110>>
    ELSE <<c>>

RECURSIVE Escape(_)
Escape(d) == IF d = << >> THEN << >> ELSE EscapeByte(Head(d)) \o Escape(Tail(d))

\* fmt.Errorf("%s", body): the body as it is.
ErrorfS(b) == [set |-> TRUE, msg |-> <<Raw(b.data)>>, is |-> {}]

\* fmt.Errorf("%q", body): the body, escaped, between double quotes.
ErrorfQ(b) == [set |-> TRUE, msg |-> <<Raw(<<34>> \o Escape(b.data) \o <<34>>)>>, is |-> {}]

\* strconv.Atoi on the argument strings the model uses: [ok, n].
Atoi(s) ==
    IF s = "0" THEN [ok |-> TRUE, n |-> 0]
    ELSE IF s = "1" THEN [ok |-> TRUE, n |-> 1]
    ELSE [ok |-> FALSE, n |-> 0]

(***************************************************************************)
(* The receivers and the arguments of a call.                              *)
(***************************************************************************)

\* A callback field is nil or set.
Callbacks == {"nil", "set"}

\* NewRecipient(s): the plugin name comes from the encoding's prefix.
NewRecipient(n, s, dm, rv) ==
    [name |-> n, encoding |-> s, identity |-> FALSE,
     DisplayMessage |-> dm, RequestValue |-> rv]

\* NewIdentity(s)
NewIdentity(n, s, dm, rv) ==
    [name |-> n, encoding |-> s, DisplayMessage |-> dm, RequestValue |-> rv]

\* Identity.Recipient: the identity's encoding and callbacks, identity = true.
IdentityRecipient(i) ==
    [name |-> i.name, encoding |-> i.encoding, identity |-> TRUE,
     DisplayMessage |-> i.DisplayMessage, RequestValue |-> i.RequestValue]

RecipientEncoding == "age1test1qqqq"

IdentityEncoding == "AGE-PLUGIN-TEST-1QQQQ"

Identities ==
    {NewIdentity("test", IdentityEncoding, dm, rv) : dm \in Callbacks, rv \in Callbacks}

Recipients ==
    {NewRecipient("test", RecipientEncoding, dm, rv) : dm \in Callbacks, rv \in Callbacks}
        \cup {IdentityRecipient(i) : i \in Identities}

\* The file key handed to Wrap: "YELLOW SUBMARINE".
TestFileKey == Bytes(<<89, 69, 76, 76, 79, 87, 32, 83, 85, 66, 77, 65, 82, 73, 78, 69>>)

\* The i-th stanza of the header handed to Unwrap.
HeaderStanza(i) ==
    Stanza(IF i % 2 = 1 THEN "X25519" ELSE "scrypt",
           IF i % 2 = 1 THEN <<"share">> ELSE <<"salt", "10">>,
           Bytes(<<i>>))

HeaderLists == {[i \in 1..n |-> HeaderStanza(i)] : n \in 0..MaxHeader}

(***************************************************************************)
(* What the plugin may send.                                               *)
(***************************************************************************)

\* The Body ReadStanza delivers for a decoded body: the decoded lines are
\* appended to a Body that starts nil, so an empty body stays nil.
ReadBody(d) == IF d = << >> THEN NilBytes ELSE Bytes(d)

ShortKey == ReadBody(<<75>>)

PromptStanzas ==
    {Stanza("msg", << >>, ReadBody(<<104, 105>>)),
     Stanza("request-public", << >>, ReadBody(<<117>>)),
     Stanza("request-secret", << >>, ReadBody(<<112>>))}

GoodRecipientStanzas ==
    {Stanza("recipient-stanza", <<"0", "tA">>, ReadBody(<<1>>)),
     Stanza("recipient-stanza", <<"0", "tB", "arg">>, ReadBody(<< >>))}

BadRecipientStanzas ==
    {Stanza("recipient-stanza", a, ReadBody(<<1>>)) :
        a \in {<< >>, <<"0">>, <<"1", "tA">>, <<"x", "tA">>}}

\* File keys of 16 bytes, of one byte and of none.
GoodFileKeys ==
    {Stanza("file-key", <<"0">>, b) :
        b \in {TestFileKey, ShortKey, ReadBody(<< >>)}}

BadFileKeys ==
    {Stanza("file-key", a, TestFileKey) :
        a \in {<< >>, <<"0", "0">>, <<"1">>, <<"x">>}}

ErrorStanzas ==
    {Stanza("error", <<"internal">>, ReadBody(<<98, 111, 111, 109>>)),
     Stanza("error", <<"internal">>, ReadBody(<<97, 34, 98>>))}

DoneStanza == TypeOnly("done")

OtherStanzas == {Stanza("grease", <<"x">>, ReadBody(<<7>>))}

\* The stanzas the plugin may send to a Wrap call.
WrapPluginStanzas ==
    PromptStanzas \cup GoodRecipientStanzas \cup BadRecipientStanzas
        \cup {Stanza("file-key", <<"0">>, TestFileKey)}
        \cup ErrorStanzas \cup {DoneStanza} \cup OtherStanzas

\* The stanzas the plugin may send to an Unwrap call.
UnwrapPluginStanzas ==
    PromptStanzas \cup GoodFileKeys \cup BadFileKeys
        \cup {Stanza("recipient-stanza", <<"0", "tA">>, ReadBody(<<1>>))}
        \cup ErrorStanzas \cup {DoneStanza} \cup OtherStanzas

\* The value a RequestValue callback returns.
Values == {<<49, 50, 51, 52>>}

(***************************************************************************)
(* State.                                                                  *)
(***************************************************************************)
(***************************************************************************)
(* The test-vector generator (package testkit).  Byte strings are          *)
(* sequences of byte values; text is its ASCII bytes.                      *)
(***************************************************************************)

\* The longest body handed to Body.
MaxBody == 97

\* The most stanzas a generated header has.
MaxStanzas == 1

\* The most calls of PayloadChunk on one file.
MaxChunks == 257

\* The library primitives are not computed here: each is a function of its
\* inputs with the output length of the real one.
RECURSIVE Sum(_)
Sum(s) ==
    IF Len(s) = 0 THEN 0
    ELSE IF Len(s) = 1 THEN s[1] % 256
    ELSE LET h == Len(s) \div 2
         IN  (Sum(SubSeq(s, 1, h)) + Sum(SubSeq(s, h + 1, Len(s)))) % 256

\* hkdf.New(sha256.New, secret, salt, info).Read(key) for a 32-byte key.
Hkdf(secret, salt, info) ==
    LET digest == Sum(secret) + 3 * Sum(salt) + 5 * Sum(info)
    IN  [i \in 1..32 |-> (digest + i) % 256]

\* hmac.New(sha256.New, key) fed msg, then Sum(nil): 32 bytes.
HmacSha256(key, msg) ==
    LET digest == Sum(key) + 7 * Sum(msg) + 11 * Len(msg)
    IN  [i \in 1..32 |-> (digest + i) % 256]

\* aead.Seal(nil, nonce, plaintext, nil): the ciphertext, as long as the
\* plaintext, followed by a tag of 16 bytes.
Seal(key, nonce, plaintext) ==
    LET stream == Sum(key) + Sum(nonce)
        digest == Sum(key) + 3 * Sum(nonce) + 5 * Sum(plaintext)
    IN  [i \in 1..Len(plaintext) |-> (plaintext[i] + stream + i) % 256]
            \o [i \in 1..16 |-> (digest + i) % 256]

\* The n bytes f.Rand(n) returns when pos bytes of the keystream were used.
Rand(pos, n) == [i \in 1..n |-> ((pos + i) * 73 + 41) % 256]

\* The character of the standard base64 alphabet for the 6-bit value v.
B64Char(v) ==
    IF v < 26 THEN 65 + v
    ELSE IF v < 52 THEN 97 + (v - 26)
    ELSE IF v < 62 THEN 48 + (v - 52)
    ELSE IF v = 62 THEN 43
    ELSE 47

\* base64.RawStdEncoding.EncodeToString: four characters for every three
\* bytes, two or three for a last group of one or two bytes, no padding.
\* Character k is cut from the bytes of its group, absent bytes counting 0.
b64(d) ==
    LET byte(i) == IF i <= Len(d) THEN d[i] ELSE 0
        char(k) ==
            LET g == 3 * ((k - 1) \div 4)
                p == (k - 1) % 4
            IN  IF p = 0 THEN byte(g + 1) \div 4
                ELSE IF p = 1 THEN (byte(g + 1) % 4) * 16 + byte(g + 2) \div 16
                ELSE IF p = 2 THEN (byte(g + 2) % 16) * 4 + byte(g + 3) \div 64
                ELSE byte(g + 3) % 64
    IN  [k \in 1..(4 * Len(d) + 2) \div 3 |-> B64Char(char(k))]

\* "age-encryption.org/"
AgeEncryptionOrg ==
    <<97, 103, 101, 45, 101, 110, 99, 114, 121, 112, 116, 105, 111, 110,
      46, 111, 114, 103, 47>>

\* "v1"
V1 == <<118, 49>>

\* "->"
Arrow == <<45, 62>>

\* "---"
Dashes == <<45, 45, 45>>

\* "header" and "payload", the info strings of the two key derivations.
HeaderInfo == <<104, 101, 97, 100, 101, 114>>

PayloadInfo == <<112, 97, 121, 108, 111, 97, 100>>

\* NewTestFile(): an empty buffer, the test file key, no stream key, a zero
\* nonce; rand is how much of the Rand keystream was used.
NewTestFile ==
    [Buf |-> << >>, rand |-> 0, fileKey |-> TestFileKey, streamKey |-> NilBytes,
     nonce |-> [i \in 1..12 |-> 0], payload |-> << >>]

TextLine(f, s) == [f EXCEPT !.Buf = @ \o s \o <<10>>]

VersionLine(f, v) == TextLine(f, AgeEncryptionOrg \o v)

\* strings.Join(elems, " ")
RECURSIVE Join(_)
Join(elems) ==
    IF Len(elems) = 0 THEN << >>
    ELSE IF Len(elems) = 1 THEN elems[1]
    ELSE elems[1] \o <<32>> \o Join(Tail(elems))

ArgsLine(f, a) == TextLine(f, Join(<<Arrow>> \o a))

\* The loop of Body that stops when nothing is left of the body.
RECURSIVE BodyUntilEmpty(_, _)
BodyUntilEmpty(f, body) ==
    LET line == IF Len(body) > 48 THEN SubSeq(body, 1, 48) ELSE body
        rest == SubSeq(body, Len(line) + 1, Len(body))
        g == TextLine(f, b64(line))
    IN  IF Len(rest) = 0 THEN g ELSE BodyUntilEmpty(g, rest)

\* Body: lines of at most 48 bytes each, until one is shorter than 48.
RECURSIVE Body(_, _)
Body(f, body) ==
    LET line == IF Len(body) > 48 THEN SubSeq(body, 1, 48) ELSE body
        rest == SubSeq(body, Len(line) + 1, Len(body))
        g == TextLine(f, b64(line))
    IN  IF Len(line) < 48 THEN g ELSE Body(g, rest)

TestFileStanza(f, a, body) == Body(ArgsLine(f, a), body)

HMACLine(f, h) == TextLine(f, Dashes \o <<32>> \o b64(h))

\* What HMAC authenticates with the space after the dashes.
HMACMessageWithSpace(buf) == buf \o Dashes \o <<32>>

\* What HMAC writes into the MAC: the buffer, then "---".
HMACMessage(buf) == buf \o Dashes

HMAC(f) ==
    LET key == Hkdf(f.fileKey.data, << >>, HeaderInfo)
    IN  HMACLine(f, HmacSha256(key, HMACMessage(f.Buf)))

Nonce(f, n) ==
    [f EXCEPT !.streamKey = Bytes(Hkdf(f.fileKey.data, n, PayloadInfo)),
              !.Buf = @ \o n]

\* PayloadChunk: seal under the nonce as it is, then nonce[10]++ on a byte.
PayloadChunk(f, plaintext) ==
    [f EXCEPT !.payload = @ \o plaintext,
              !.Buf = @ \o Seal(f.streamKey.data, f.nonce, plaintext),
              !.nonce[11] = (@ + 1) % 256]

\* The nonce PayloadChunkFinal seals under: nonce[11] = 1.
FinalNonce(n) == [n EXCEPT ![12] = 1]

PayloadChunkFinal(f, plaintext) ==
    [f EXCEPT !.payload = @ \o plaintext,
              !.nonce = FinalNonce(@),
              !.Buf = @ \o Seal(f.streamKey.data, FinalNonce(f.nonce), plaintext)]

\* Payload: a nonce of 16 bytes from Rand, then the one, final, chunk.
Payload(f, plaintext) ==
    PayloadChunkFinal(Nonce([f EXCEPT !.rand = @ + 16], Rand(f.rand, 16)),
                      plaintext)

VARIABLES
    call,       \* the method in progress: "Wrap" or "Unwrap"
    r,          \* its receiver: a Recipient or an Identity
    inKey,      \* Wrap's fileKey argument
    inStanzas,  \* Unwrap's stanzas argument
    pc,         \* where the call is
    cc,         \* the clientConnection: pipes and child process
    io,         \* what crossed the connection and the callbacks, in order
    stanzas,    \* Wrap's named result, as collected so far
    fileKey,    \* Unwrap's named result, as set so far
    err,        \* the named result err of either
    tf,         \* the TestFile of the generator
    tpc,        \* where the generator's script is
    calls       \* what the script's calls handed on and wrote, in order

vars ==
    <<call, r, inKey, inStanzas, pc, cc, io, stanzas, fileKey, err,
      tf, tpc, calls>>

\* The generator's part of the state, which a plugin call leaves alone.
testkit == <<tf, tpc, calls>>

args == <<call, r, inKey, inStanzas>>

\* Log entries.
ReadEv(s) == [ev |-> "read", st |-> s, secret |-> FALSE, ok |-> TRUE, val |-> << >>]

\* ReadStanza returned an error.
ReadFailEv ==
    [ev |-> "readfail", st |-> TypeOnly(""), secret |-> FALSE, ok |-> FALSE, val |-> << >>]

WriteEv(s, ok) == [ev |-> "write", st |-> s, secret |-> FALSE, ok |-> ok, val |-> << >>]

CallEv(fn, m, secret, ok, v) ==
    [ev |-> "call", st |-> Stanza(fn, << >>, Bytes(m)), secret |-> secret,
     ok |-> ok, val |-> v]

Reads == SelectSeq(io, LAMBDA e : e.ev = "read")

Writes == SelectSeq(io, LAMBDA e : e.ev = "write" /\ e.ok)

NoConn ==
    [stdout |-> "none", stdin |-> "none", proc |-> "none", status |-> 0,
     closes |-> 0, signals |-> 0, waitErr |-> FALSE]

Init ==
    /\ call \in {"Wrap", "Unwrap"}
    /\ r \in IF call = "Wrap" THEN Recipients ELSE Identities
    /\ inKey = IF call = "Wrap" THEN TestFileKey ELSE NilBytes
    /\ inStanzas \in IF call = "Wrap" THEN {<< >>} ELSE HeaderLists
    /\ pc = "start"
    /\ cc = NoConn
    /\ io = << >>
    /\ stanzas = << >>
    /\ fileKey = NilBytes
    /\ err = NoErr
    /\ tf = NewTestFile
    /\ tpc = "unused"
    /\ calls = << >>

(***************************************************************************)
(* The connection.                                                         *)
(***************************************************************************)

\* How starting the plugin can end: either pipe cannot be created, the
\* process cannot be started, or it runs.
OpenOutcomes == {"stdout-pipe-fails", "stdin-pipe-fails", "start-fails", "started"}

\* openClientConnection: the connection it leaves behind and its error.
\* cmd.Start closes both pipes when it fails; a failing StdinPipe returns
\* with the stdout pipe still open.
openClientConnection(outcome) ==
    CASE outcome = "stdout-pipe-fails" ->
            [cc |-> NoConn, e |-> Errorf("pipe: too many open files")]
      [] outcome = "stdin-pipe-fails" ->
            [cc |-> [NoConn EXCEPT !.stdout = "open"],
             e |-> Errorf("pipe: too many open files")]
      [] outcome = "start-fails" ->
            [cc |-> [NoConn EXCEPT !.stdout = "closed", !.stdin = "closed"],
             e |-> Errorf("exec: executable file not found")]
      [] outcome = "started" ->
            [cc |-> [NoConn EXCEPT !.stdout = "open", !.stdin = "open",
                                   !.proc = "running"],
             e |-> NoErr]

\* The deferred function with %v in place of %w.
DeferWrapV(name, e) ==
    IF e.set
    THEN WrapV(<<Lit("age-plugin-"), Lit(name), Lit(": ")>>, e)
    ELSE e

\* The deferred function of Wrap and Unwrap: a non-nil error is wrapped (%w)
\* behind the plugin's name.
DeferWrap(name, e) ==
    IF e.set
    THEN WrapW(<<Lit("age-plugin-"), Lit(name), Lit(": ")>>, e)
    ELSE e

\* A return statement that leaves what was collected in the named results.
ReturnCollected(st, fk, e) ==
    /\ UNCHANGED <<stanzas, fileKey>>
    /\ err' = e
    /\ pc' = "close"

\* A return statement after conn.Close was deferred: the named results are
\* set and the deferred calls are still to run.
Return(st, fk, e) ==
    /\ stanzas' = st
    /\ fileKey' = fk
    /\ err' = e
    /\ pc' = "close"

\* The read loop goes on to its next iteration.
Continue(st, fk) ==
    /\ stanzas' = st
    /\ fileKey' = fk
    /\ UNCHANGED <<pc, err>>

\* A write that failed.
WriteErr == Errorf("write |1: broken pipe")

\* Stanza.Marshal(conn) of each stanza of sts in turn, the first k of them
\* succeeding: the log after them.
MarshalAll(log, sts, k) ==
    log \o [i \in 1..k |-> WriteEv(sts[i], TRUE)]
        \o (IF k < Len(sts) THEN <<WriteEv(sts[k + 1], FALSE)>> ELSE << >>)

\* Wrap and Unwrap up to the deferred conn.Close: the plugin is started, or
\* the call returns "couldn't start plugin".
Start ==
    /\ pc = "start"
    /\ \E outcome \in OpenOutcomes :
          LET o == openClientConnection(outcome)
          IN  /\ cc' = o.cc
              /\ IF o.e.set
                 THEN /\ pc' = "returned"
                      /\ stanzas' = << >>
                      /\ fileKey' = NilBytes
                      /\ err' = DeferWrap(r.name,
                                    WrapV(<<Lit("couldn't start plugin: ")>>, o.e))
                 ELSE /\ pc' = "phase1"
                      /\ UNCHANGED <<stanzas, fileKey, err>>
    /\ UNCHANGED <<testkit, args, io>>

\* Phase 1 of Wrap with done sent before the file key.
WrapPhase1DoneFirst(rcp, key) ==
    <<Stanza(IF rcp.identity THEN "add-identity" ELSE "add-recipient",
             <<rcp.encoding>>, NilBytes),
      TypeOnly("done"),
      Stanza("wrap-file-key", << >>, key)>>

\* Phase 1 of Wrap: the target, the file key, done.
WrapPhase1Stanzas(rcp, key) ==
    <<Stanza(IF rcp.identity THEN "add-identity" ELSE "add-recipient",
             <<rcp.encoding>>, NilBytes),
      Stanza("wrap-file-key", << >>, key),
      TypeOnly("done")>>

WrapPhase1 ==
    /\ call = "Wrap" /\ pc = "phase1"
    /\ LET sts == WrapPhase1Stanzas(r, inKey)
       IN  \E k \in 0..Len(sts) :
              /\ io' = MarshalAll(io, sts, k)
              /\ IF k < Len(sts)
                 THEN Return(<< >>, NilBytes, WriteErr)
                 ELSE pc' = "phase2" /\ UNCHANGED <<stanzas, fileKey, err>>
    /\ UNCHANGED <<testkit, args, cc>>

\* Phase 1 of Unwrap with the header stanzas sent last first.
UnwrapPhase1Reversed(id, hdr) ==
    <<Stanza("add-identity", <<id.encoding>>, NilBytes)>>
        \o [i \in 1..Len(hdr) |->
                Stanza("recipient-stanza",
                       <<"0", hdr[Len(hdr) + 1 - i].Type>>
                           \o hdr[Len(hdr) + 1 - i].Args,
                       hdr[Len(hdr) + 1 - i].Body)]
        \o <<TypeOnly("done")>>

\* Phase 1 of Unwrap: the identity, one recipient-stanza per header stanza,
\* done.
UnwrapPhase1Stanzas(id, hdr) ==
    <<Stanza("add-identity", <<id.encoding>>, NilBytes)>>
        \o [i \in 1..Len(hdr) |->
                Stanza("recipient-stanza", <<"0", hdr[i].Type>> \o hdr[i].Args,
                       hdr[i].Body)]
        \o <<TypeOnly("done")>>

UnwrapPhase1 ==
    /\ call = "Unwrap" /\ pc = "phase1"
    /\ LET sts == UnwrapPhase1Stanzas(r, inStanzas)
       IN  \E k \in 0..Len(sts) :
              /\ io' = MarshalAll(io, sts, k)
              /\ IF k < Len(sts)
                 THEN Return(<< >>, NilBytes, WriteErr)
                 ELSE pc' = "phase2" /\ UNCHANGED <<stanzas, fileKey, err>>
    /\ UNCHANGED <<testkit, args, cc>>

\* The plugin process exits, with status 0 or not.
PluginExit ==
    /\ cc.proc = "running"
    /\ \E st \in {0, 1} : cc' = [cc EXCEPT !.proc = "exited", !.status = st]
    /\ UNCHANGED <<testkit, args, pc, io, stanzas, fileKey, err>>

\* clientConnection.Close up to cmd.Wait: both pipes are closed and the
\* interrupt is sent.
Close ==
    /\ pc = "close"
    /\ cc' = [cc EXCEPT !.stdin = "closed", !.stdout = "closed",
                        !.signals = @ + 1, !.closes = @ + 1]
    /\ pc' = "wait"
    /\ UNCHANGED <<testkit, args, io, stanzas, fileKey, err>>

\* cmd.Wait returns once the process has exited; its error is dropped by the
\* defer statement, the deferred wrapper runs and the call returns.
Wait ==
    /\ pc = "wait"
    /\ cc.proc = "exited"
    /\ cc' = [cc EXCEPT !.proc = "reaped", !.waitErr = (cc.status # 0)]
    /\ err' = DeferWrap(r.name, err)
    /\ pc' = "returned"
    /\ UNCHANGED <<testkit, args, io, stanzas, fileKey>>

(***************************************************************************)
(* Phase 2 of Wrap: one action per case of the switch, each reading one    *)
(* stanza and answering it.                                                *)
(***************************************************************************)

\* A read that failed: the plugin closed its output or framed a stanza badly.
ReadErr == Errorf("failed to read line: EOF")

MalformedRecipientStanza == Errorf("received malformed recipient stanza")

ZeroRecipientStanzas == Errorf("received zero recipient stanzas")

MalformedFileKey == Errorf("received malformed file-key stanza")

DuplicatedFileKey == Errorf("received duplicated file-key stanza")

\* The loop may read another stanza that keeps it going.
MayContinue == Len(Reads) < MaxReads

\* A reply whose write error is not looked at.
ReplyUnchecked(log, st, wok, sts, fk) ==
    /\ io' = Append(log, WriteEv(st, wok))
    /\ Continue(sts, fk)

\* ss.Marshal(conn) of a reply followed by its error check.
Reply(log, st, wok, sts, fk) ==
    /\ io' = Append(log, WriteEv(st, wok))
    /\ IF wok THEN Continue(sts, fk) ELSE Return(<< >>, NilBytes, WriteErr)

\* case "msg" answering ok when there is no callback.
MsgCaseNilOk(rcv, log, s, cbOk) ==
    IF rcv.DisplayMessage = "nil"
    THEN [log |-> log, reply |-> TypeOnly("ok")]
    ELSE [log |-> Append(log, CallEv("DisplayMessage", s.Body.data, FALSE, cbOk, << >>)),
          reply |-> IF cbOk THEN TypeOnly("ok") ELSE TypeOnly("fail")]

\* case "msg": the log after the callback, if there is one, and the reply.
MsgCase(rcv, log, s, cbOk) ==
    IF rcv.DisplayMessage = "nil"
    THEN [log |-> log, reply |-> TypeOnly("fail")]
    ELSE [log |-> Append(log, CallEv("DisplayMessage", s.Body.data, FALSE, cbOk, << >>)),
          reply |-> IF cbOk THEN TypeOnly("ok") ELSE TypeOnly("fail")]

\* case "request-secret", "request-public"
RequestCase(rcv, log, s, cbOk, v) ==
    IF rcv.RequestValue = "nil"
    THEN [log |-> log, reply |-> TypeOnly("fail")]
    ELSE [log |-> Append(log, CallEv("RequestValue", s.Body.data,
                                     s.Type = "request-secret", cbOk,
                                     IF cbOk THEN v ELSE << >>)),
          reply |-> IF cbOk THEN Stanza("ok", << >>, Bytes(v)) ELSE TypeOnly("fail")]

WrapReadFail ==
    /\ call = "Wrap" /\ pc = "phase2"
    /\ io' = Append(io, ReadFailEv)
    /\ Return(<< >>, NilBytes, ReadErr)
    /\ UNCHANGED <<testkit, args, cc>>

WrapMsg ==
    /\ call = "Wrap" /\ pc = "phase2" /\ MayContinue
    /\ \E s \in WrapPluginStanzas, cbOk \in BOOLEAN, wok \in BOOLEAN :
          /\ s.Type = "msg"
          /\ r.DisplayMessage = "nil" => cbOk
          /\ LET c == MsgCase(r, Append(io, ReadEv(s)), s, cbOk)
             IN  Reply(c.log, c.reply, wok, stanzas, fileKey)
    /\ UNCHANGED <<testkit, args, cc>>

WrapRequest ==
    /\ call = "Wrap" /\ pc = "phase2" /\ MayContinue
    /\ \E s \in WrapPluginStanzas, cbOk \in BOOLEAN, v \in Values, wok \in BOOLEAN :
          /\ s.Type \in {"request-secret", "request-public"}
          /\ r.RequestValue = "nil" => cbOk
          /\ LET c == RequestCase(r, Append(io, ReadEv(s)), s, cbOk, v)
             IN  Reply(c.log, c.reply, wok, stanzas, fileKey)
    /\ UNCHANGED <<testkit, args, cc>>

\* The checks of case "recipient-stanza" without the one on the index.
RecipientStanzaAnyIndex(s) ==
    /\ Len(s.Args) >= 2
    /\ Atoi(s.Args[1]).ok

\* The checks of case "recipient-stanza".
RecipientStanzaOk(s) ==
    /\ Len(s.Args) >= 2
    /\ Atoi(s.Args[1]).ok
    /\ Atoi(s.Args[1]).n = 0

\* The age.Stanza appended for an accepted recipient-stanza.
ToHeaderStanza(s) == Stanza(s.Args[2], SubSeq(s.Args, 3, Len(s.Args)), s.Body)

WrapRecipientStanza ==
    /\ call = "Wrap" /\ pc = "phase2"
    /\ \E s \in WrapPluginStanzas :
          /\ s.Type = "recipient-stanza"
          /\ IF RecipientStanzaOk(s)
             THEN /\ MayContinue
                  /\ \E wok \in BOOLEAN :
                        Reply(Append(io, ReadEv(s)), TypeOnly("ok"), wok,
                              Append(stanzas, ToHeaderStanza(s)), fileKey)
             ELSE /\ io' = Append(io, ReadEv(s))
                  /\ Return(<< >>, NilBytes, MalformedRecipientStanza)
    /\ UNCHANGED <<testkit, args, cc>>

\* case "error": ok is sent, then the body is returned as the error.
WrapError ==
    /\ call = "Wrap" /\ pc = "phase2"
    /\ \E s \in WrapPluginStanzas, wok \in BOOLEAN :
          /\ s.Type = "error"
          /\ io' = Append(Append(io, ReadEv(s)), WriteEv(TypeOnly("ok"), wok))
          /\ Return(<< >>, NilBytes, IF wok THEN ErrorfQ(s.Body) ELSE WriteErr)
    /\ UNCHANGED <<testkit, args, cc>>

\* Wrap's result without the check for an empty collection.
WrapResultUnchecked(sts) == [stanzas |-> sts, e |-> NoErr]

\* What Wrap returns after the loop: an error if nothing was collected.
WrapResult(sts) ==
    IF Len(sts) = 0
    THEN [stanzas |-> << >>, e |-> ZeroRecipientStanzas]
    ELSE [stanzas |-> sts, e |-> NoErr]

\* case "done" and what follows the loop.
WrapDone ==
    /\ call = "Wrap" /\ pc = "phase2"
    /\ \E s \in WrapPluginStanzas :
          /\ s.Type = "done"
          /\ io' = Append(io, ReadEv(s))
          /\ Return(WrapResult(stanzas).stanzas, NilBytes, WrapResult(stanzas).e)
    /\ UNCHANGED <<testkit, args, cc>>

\* The types Wrap's switch names.
WrapTypes ==
    {"msg", "request-secret", "request-public", "recipient-stanza", "error", "done"}

\* A default case answering fail.
UnsupportedAsFail == TypeOnly("fail")

\* The reply of the default case.
Unsupported == TypeOnly("unsupported")

\* default: unsupported.
WrapDefault ==
    /\ call = "Wrap" /\ pc = "phase2" /\ MayContinue
    /\ \E s \in WrapPluginStanzas, wok \in BOOLEAN :
          /\ s.Type \notin WrapTypes
          /\ Reply(Append(io, ReadEv(s)), Unsupported, wok, stanzas, fileKey)
    /\ UNCHANGED <<testkit, args, cc>>

(***************************************************************************)
(* Phase 2 of Unwrap.                                                      *)
(***************************************************************************)

UnwrapReadFail ==
    /\ call = "Unwrap" /\ pc = "phase2"
    /\ io' = Append(io, ReadFailEv)
    /\ Return(<< >>, NilBytes, ReadErr)
    /\ UNCHANGED <<testkit, args, cc>>

UnwrapMsg ==
    /\ call = "Unwrap" /\ pc = "phase2" /\ MayContinue
    /\ \E s \in UnwrapPluginStanzas, cbOk \in BOOLEAN, wok \in BOOLEAN :
          /\ s.Type = "msg"
          /\ r.DisplayMessage = "nil" => cbOk
          /\ LET c == MsgCase(r, Append(io, ReadEv(s)), s, cbOk)
             IN  Reply(c.log, c.reply, wok, stanzas, fileKey)
    /\ UNCHANGED <<testkit, args, cc>>

UnwrapRequest ==
    /\ call = "Unwrap" /\ pc = "phase2" /\ MayContinue
    /\ \E s \in UnwrapPluginStanzas, cbOk \in BOOLEAN, v \in Values, wok \in BOOLEAN :
          /\ s.Type \in {"request-secret", "request-public"}
          /\ r.RequestValue = "nil" => cbOk
          /\ LET c == RequestCase(r, Append(io, ReadEv(s)), s, cbOk, v)
             IN  Reply(c.log, c.reply, wok, stanzas, fileKey)
    /\ UNCHANGED <<testkit, args, cc>>

\* The argument checks of case "file-key".
FileKeyArgsOk(s) ==
    /\ Len(s.Args) = 1
    /\ Atoi(s.Args[1]).ok
    /\ Atoi(s.Args[1]).n = 0

\* A duplicate check that never finds a key.
FileKeyNeverSet(fk) == FALSE

\* The duplicate check of case "file-key": fileKey != nil.
FileKeyAlreadySet(fk) == ~fk.nil

UnwrapFileKey ==
    /\ call = "Unwrap" /\ pc = "phase2"
    /\ \E s \in UnwrapPluginStanzas :
          /\ s.Type = "file-key"
          /\ IF ~FileKeyArgsOk(s)
             THEN /\ io' = Append(io, ReadEv(s))
                  /\ Return(<< >>, NilBytes, MalformedFileKey)
             ELSE IF FileKeyAlreadySet(fileKey)
             THEN /\ io' = Append(io, ReadEv(s))
                  /\ Return(<< >>, NilBytes, DuplicatedFileKey)
             ELSE /\ MayContinue
                  /\ \E wok \in BOOLEAN :
                        Reply(Append(io, ReadEv(s)), TypeOnly("ok"), wok,
                              stanzas, s.Body)
    /\ UNCHANGED <<testkit, args, cc>>

UnwrapError ==
    /\ call = "Unwrap" /\ pc = "phase2"
    /\ \E s \in UnwrapPluginStanzas, wok \in BOOLEAN :
          /\ s.Type = "error"
          /\ io' = Append(Append(io, ReadEv(s)), WriteEv(TypeOnly("ok"), wok))
          /\ Return(<< >>, NilBytes, IF wok THEN ErrorfQ(s.Body) ELSE WriteErr)
    /\ UNCHANGED <<testkit, args, cc>>

\* What Unwrap returns after the loop: ErrIncorrectIdentity if no key was set.
UnwrapResult(fk) ==
    IF fk.nil
    THEN [fileKey |-> NilBytes, e |-> ErrIncorrectIdentity]
    ELSE [fileKey |-> fk, e |-> NoErr]

\* case "done" and what follows the loop.
UnwrapDone ==
    /\ call = "Unwrap" /\ pc = "phase2"
    /\ \E s \in UnwrapPluginStanzas :
          /\ s.Type = "done"
          /\ io' = Append(io, ReadEv(s))
          /\ Return(<< >>, UnwrapResult(fileKey).fileKey, UnwrapResult(fileKey).e)
    /\ UNCHANGED <<testkit, args, cc>>

\* The types Unwrap's switch names.
UnwrapTypes ==
    {"msg", "request-secret", "request-public", "file-key", "error", "done"}

UnwrapDefault ==
    /\ call = "Unwrap" /\ pc = "phase2" /\ MayContinue
    /\ \E s \in UnwrapPluginStanzas, wok \in BOOLEAN :
          /\ s.Type \notin UnwrapTypes
          /\ Reply(Append(io, ReadEv(s)), Unsupported, wok, stanzas, fileKey)
    /\ UNCHANGED <<testkit, args, cc>>

(***************************************************************************)
(* The specification.                                                      *)
(***************************************************************************)

Next ==
    \/ Start
    \/ WrapPhase1
    \/ WrapReadFail
    \/ WrapMsg
    \/ WrapRequest
    \/ WrapRecipientStanza
    \/ WrapError
    \/ WrapDone
    \/ WrapDefault
    \/ UnwrapPhase1
    \/ UnwrapReadFail
    \/ UnwrapMsg
    \/ UnwrapRequest
    \/ UnwrapFileKey
    \/ UnwrapError
    \/ UnwrapDone
    \/ UnwrapDefault
    \/ PluginExit
    \/ Close
    \/ Wait

Spec == Init /\ [][Next]_vars

(***************************************************************************)
(* The same program with the scheduling its own code guarantees: Close,    *)
(* once reached through the deferred call, runs, and Wait returns once     *)
(* the child has exited.  Nothing in the code makes the child exit: the    *)
(* plugin may ignore the interrupt and the closing of its pipes, so        *)
(* PluginExit carries no fairness.                                         *)
(***************************************************************************)
FairSpec == Spec /\ WF_vars(Close) /\ WF_vars(Wait)

(***************************************************************************)
(* The generator: a script writes a header (version line, stanzas, HMAC    *)
(* line) and then the payload in one final chunk, or, on a new file, a     *)
(* nonce and the payload chunk by chunk.  The chunk methods read nothing   *)
(* of the buffer, so chunked payloads are run on the new file only.        *)
(***************************************************************************)

\* What a call handed on and where in Buf it wrote: for Body the body, for
\* HMAC the message authenticated, for a chunk the plaintext and the nonce
\* it was sealed under.
CallEntry(op, arg, nonce, from, to) ==
    [op |-> op, arg |-> arg, nonce |-> nonce, from |-> from, to |-> to]

CallsOf(ops) == SelectSeq(calls, LAMBDA e : e.op \in ops)

\* The arguments of a script's stanzas: "X25519" and a share.
ArgLists == {<<<<88, 50, 53, 53, 49, 57>>, b64(<<1, 2, 3>>)>>}

BodyOf(n) == [i \in 1..n |-> (i * 37 + n) % 256]

Bodies == {BodyOf(n) : n \in 0..MaxBody}

\* "hi"
Plaintexts == {<< >>, <<104, 105>>}

plugin == <<call, r, inKey, inStanzas, pc, cc, io, stanzas, fileKey, err>>

TestFileInit ==
    /\ call = "none"
    /\ r = NewRecipient("test", "age1test1qqqq", "nil", "nil")
    /\ inKey = NilBytes
    /\ inStanzas = << >>
    /\ pc = "unused"
    /\ cc = NoConn
    /\ io = << >>
    /\ stanzas = << >>
    /\ fileKey = NilBytes
    /\ err = NoErr
    /\ tf = NewTestFile
    /\ tpc = "new"
    /\ calls = << >>

CallVersionLine ==
    /\ tpc = "new"
    /\ tf' = VersionLine(tf, V1)
    /\ tpc' = "header"
    /\ UNCHANGED <<plugin, calls>>

CallArgsLine ==
    /\ tpc = "header"
    /\ Len(CallsOf({"Body"})) < MaxStanzas
    /\ \E a \in ArgLists : tf' = ArgsLine(tf, a)
    /\ tpc' = "args"
    /\ UNCHANGED <<plugin, calls>>

CallBody ==
    /\ tpc = "args"
    /\ \E body \in Bodies :
          /\ tf' = Body(tf, body)
          /\ calls' = Append(calls, CallEntry("Body", body, << >>,
                                              Len(tf.Buf), Len(tf'.Buf)))
    /\ tpc' = "header"
    /\ UNCHANGED plugin

CallStanza ==
    /\ tpc = "header"
    /\ Len(CallsOf({"Body"})) < MaxStanzas
    /\ \E a \in ArgLists, body \in Bodies :
          /\ tf' = TestFileStanza(tf, a, body)
          /\ calls' = Append(calls, CallEntry("Body", body, << >>,
                                              Len(ArgsLine(tf, a).Buf),
                                              Len(tf'.Buf)))
    /\ UNCHANGED <<plugin, tpc>>

CallHMAC ==
    /\ tpc = "header"
    /\ tf' = HMAC(tf)
    /\ calls' = Append(calls, CallEntry("HMAC", HMACMessage(tf.Buf), << >>,
                                        Len(tf.Buf), Len(tf'.Buf)))
    /\ tpc' = "footer"
    /\ UNCHANGED plugin

CallPayload ==
    /\ tpc = "footer"
    /\ \E plaintext \in Plaintexts :
          /\ tf' = Payload(tf, plaintext)
          /\ calls' = Append(calls, CallEntry("PayloadChunkFinal", plaintext,
                                              FinalNonce(tf.nonce),
                                              Len(tf.Buf) + 16, Len(tf'.Buf)))
    /\ tpc' = "end"
    /\ UNCHANGED plugin

CallNonce ==
    /\ tpc = "new"
    /\ tf' = Nonce([tf EXCEPT !.rand = @ + 16], Rand(tf.rand, 16))
    /\ tpc' = "payload"
    /\ UNCHANGED <<plugin, calls>>

CallPayloadChunk ==
    /\ tpc = "payload"
    /\ Len(calls) < MaxChunks
    /\ \E plaintext \in {<<104, 105>>} :
          /\ tf' = PayloadChunk(tf, plaintext)
          /\ calls' = Append(calls, CallEntry("PayloadChunk", plaintext, tf.nonce,
                                              Len(tf.Buf), Len(tf'.Buf)))
    /\ UNCHANGED <<plugin, tpc>>

CallPayloadChunkFinal ==
    /\ tpc = "payload"
    /\ \E plaintext \in Plaintexts :
          /\ tf' = PayloadChunkFinal(tf, plaintext)
          /\ calls' = Append(calls, CallEntry("PayloadChunkFinal", plaintext,
                                              FinalNonce(tf.nonce),
                                              Len(tf.Buf), Len(tf'.Buf)))
    /\ tpc' = "end"
    /\ UNCHANGED plugin

TestFileNext ==
    \/ CallVersionLine
    \/ CallArgsLine
    \/ CallBody
    \/ CallStanza
    \/ CallHMAC
    \/ CallPayload
    \/ CallNonce
    \/ CallPayloadChunk
    \/ CallPayloadChunkFinal

TestFileSpec == TestFileInit /\ [][TestFileNext]_vars

(***************************************************************************)
(* Properties.                                                             *)
(***************************************************************************)

\* The plugin's done was the last stanza read.
DoneRead == Len(Reads) > 0 /\ Reads[Len(Reads)].st.Type = "done"

ReadsOfType(t) == SelectSeq(Reads, LAMBDA e : e.st.Type = t)

Range(f) == {f[i] : i \in DOMAIN f}

\* The text of the deferred wrapper's prefix.
NamePrefix == <<Lit("age-plugin-"), Lit(r.name), Lit(": ")>>

\* C1: once Wrap or Unwrap has returned, the child it started has been
\* awaited, neither pipe it created is open, and a call that started the
\* plugin ran Close exactly once.
C1_SessionHygiene ==
    pc = "returned" =>
        /\ cc.proc \in {"none", "reaped"}
        /\ cc.stdin # "open"
        /\ cc.stdout # "open"
        /\ cc.proc # "none" => cc.closes = 1

\* C2: Wrap returns without error only after done with at least one
\* recipient-stanza collected; done with none collected gives the
\* zero-recipient-stanzas error and no stanzas.
C2_WrapPostCondition ==
    (call = "Wrap" /\ pc = "returned") =>
        /\ ~err.set =>
              /\ DoneRead
              /\ Len(ReadsOfType("recipient-stanza")) >= 1
              /\ Len(stanzas) >= 1
        /\ (DoneRead /\ Len(ReadsOfType("recipient-stanza")) = 0) =>
              /\ err.set
              /\ err.msg = NamePrefix \o <<Lit("received zero recipient stanzas")>>
              /\ stanzas = << >>

C2_Witness ==
    /\ call = "Wrap" /\ pc = "returned"
    /\ DoneRead
    /\ Len(ReadsOfType("recipient-stanza")) = 0
    /\ err.set

\* C3: when done arrives in Unwrap and no file-key stanza was read, Unwrap
\* returns no key and an error that is prefixed with the plugin's name and
\* still matches ErrIncorrectIdentity.
C3_AbsentFileKey ==
    (call = "Unwrap" /\ pc = "returned" /\ DoneRead
        /\ Len(ReadsOfType("file-key")) = 0) =>
        /\ fileKey = NilBytes
        /\ err.set
        /\ IsIncorrectIdentity(err)
        /\ SubSeq(err.msg, 1, 3) = NamePrefix
        /\ Len(err.msg) > 3

C3_Witness ==
    /\ call = "Unwrap" /\ pc = "returned" /\ DoneRead
    /\ Len(ReadsOfType("file-key")) = 0
    /\ Len(Reads) > 1

\* The file-key stanzas read that have the single argument 0.
WellFormedFileKeyReads ==
    SelectSeq(Reads, LAMBDA e : e.st.Type = "file-key" /\ e.st.Args = <<"0">>)

\* C4: when a second well-formed file-key stanza is read after a first one
\* was accepted, whatever their bodies, Unwrap returns an error and no key.
C4_DuplicateFileKey ==
    (call = "Unwrap" /\ pc = "returned" /\ Len(WellFormedFileKeyReads) >= 2) =>
        /\ err.set
        /\ fileKey = NilBytes

\* The file-key stanzas Unwrap answered with ok.
AcceptedFileKeys ==
    {i \in 1..Len(io) - 1 :
        /\ io[i].ev = "read" /\ io[i].st.Type = "file-key"
        /\ io[i + 1].ev = "write" /\ io[i + 1].st.Type = "ok"}

\* C5: Unwrap accepts a file-key stanza only with the single argument 0 and a
\* body of 16 bytes, and a key it returns is 16 bytes long.
C5_FileKeyShape ==
    call = "Unwrap" =>
        /\ \A i \in AcceptedFileKeys :
              io[i].st.Args = <<"0">> /\ len(io[i].st.Body) = 16
        /\ (pc = "returned" /\ ~err.set) => len(fileKey) = 16

\* The places in the log where a stanza of one of the types ts was read.
ReadAt(ts) == {i \in 1..Len(io) : io[i].ev = "read" /\ io[i].st.Type \in ts}

\* The call is past its read loop, on its way out or out.
Leaving == pc \in {"close", "wait", "returned"}

\* C6: every msg, request-public or request-secret read is answered by one
\* reply and the loop goes on; the reply is ok exactly when the callback is
\* set and returned no error; RequestValue gets secret = (type is
\* request-secret) and its value is the body of ok; without a callback no
\* callback runs and fail is sent.
C6_PromptHandling ==
    \A i \in ReadAt({"msg", "request-public", "request-secret"}) :
        LET s == io[i].st
            cb == IF s.Type = "msg" THEN r.DisplayMessage ELSE r.RequestValue
            j == IF cb = "nil" THEN i + 1 ELSE i + 2
        IN  /\ Len(io) >= j
            /\ cb # "nil" =>
                  /\ io[i + 1].ev = "call"
                  /\ io[i + 1].st.Type =
                        (IF s.Type = "msg" THEN "DisplayMessage" ELSE "RequestValue")
                  /\ io[i + 1].st.Body.data = s.Body.data
                  /\ io[i + 1].secret = (s.Type = "request-secret")
            /\ io[j].ev = "write"
            /\ io[j].st.Type = (IF cb # "nil" /\ io[i + 1].ok THEN "ok" ELSE "fail")
            /\ io[j].st.Args = << >>
            /\ io[j].st.Body =
                  (IF io[j].st.Type = "ok" /\ s.Type # "msg"
                   THEN Bytes(io[i + 1].val) ELSE NilBytes)
            /\ j < Len(io) => io[j + 1].ev # "write"
            /\ (j = Len(io) /\ io[j].ok) => (pc = "phase2" /\ ~err.set)

C6_Witness ==
    /\ pc = "phase2"
    /\ \E i \in ReadAt({"request-secret"}) :
          /\ io[i + 1].ev = "call" /\ io[i + 1].secret
          /\ io[i + 2].st.Type = "ok" /\ io[i + 2].st.Body = Bytes(io[i + 1].val)
    /\ \E i \in ReadAt({"msg"}) : io[i + 1].ev = "call" /\ ~io[i + 1].ok

\* The header stanza a recipient-stanza [0, type, rest...] with body B stands for.
HeaderStanzaOf(s) == [Type |-> s.Args[2], Args |-> Tail(Tail(s.Args)), Body |-> s.Body]

\* C7: in Wrap a recipient-stanza with at least two arguments, the first 0,
\* is answered with ok and any other one ends Wrap with the malformed error;
\* the stanzas collected, and returned on success, are the header stanzas of
\* the recipient-stanzas read, in their order.
C7_RecipientStanzaCollection ==
    call = "Wrap" =>
        /\ \A i \in ReadAt({"recipient-stanza"}) :
              IF Len(io[i].st.Args) >= 2 /\ io[i].st.Args[1] = "0"
              THEN /\ i < Len(io)
                   /\ io[i + 1].ev = "write"
                   /\ io[i + 1].st = TypeOnly("ok")
              ELSE /\ i = Len(io)
                   /\ Leaving
                   /\ err.set
                   /\ err.msg[Len(err.msg)] = Lit("received malformed recipient stanza")
                   /\ stanzas = << >>
        /\ (pc = "phase2" \/ (Leaving /\ ~err.set)) =>
              LET rs == ReadsOfType("recipient-stanza")
              IN  stanzas = [k \in 1..Len(rs) |-> HeaderStanzaOf(rs[k].st)]

C7_Witness ==
    /\ call = "Wrap" /\ pc = "returned" /\ ~err.set
    /\ Len(stanzas) = 2
    /\ stanzas[1] # stanzas[2]

\* The error stanza read at place i of the log: ok was written next, nothing
\* followed, and the call is leaving with an error and no result.
ErrorStanzaAborts(i) ==
    /\ Len(io) = i + 1
    /\ io[i + 1].ev = "write"
    /\ io[i + 1].st = TypeOnly("ok")
    /\ Leaving
    /\ err.set
    /\ stanzas = << >>
    /\ fileKey = NilBytes

\* C8 as stated: on error the client sends ok and aborts with an error whose
\* text, behind the plugin's name, is the stanza body; nothing is read or
\* written afterwards and nothing accepted earlier is returned.
C8_ErrorTextIsBody ==
    \A i \in ReadAt({"error"}) :
        /\ ErrorStanzaAborts(i)
        /\ (pc = "returned" /\ io[i + 1].ok) =>
              err.msg = NamePrefix \o <<Raw(io[i].st.Body.data)>>

\* C8, amended: on error the client writes ok and aborts; if the write
\* succeeded the error's text is the plugin's name prefix followed by the
\* body in double quotes with %q escapes, and otherwise it is the write
\* error; nothing is read or written afterwards and nothing accepted earlier
\* is returned.
C8_ErrorStanza ==
    \A i \in ReadAt({"error"}) :
        /\ ErrorStanzaAborts(i)
        /\ pc = "returned" =>
              err.msg = NamePrefix \o
                  (IF io[i + 1].ok
                   THEN <<Raw(<<34>> \o Escape(io[i].st.Body.data) \o <<34>>)>>
                   ELSE <<Lit("write |1: broken pipe")>>)

C8_Witness ==
    /\ pc = "returned"
    /\ \E i \in ReadAt({"error"}) : io[i + 1].ok /\ 34 \in Range(io[i].st.Body.data)
    /\ ReadAt({"recipient-stanza", "file-key"}) # {}

\* The types the switch of the call in progress names.
HandledTypes ==
    {"msg", "request-secret", "request-public", "error", "done"}
        \cup (IF call = "Wrap" THEN {"recipient-stanza"} ELSE {"file-key"})

\* C9: a step that reads a stanza of a type the call does not handle writes
\* one unsupported stanza and, once that is written, leaves the collected
\* stanzas, the file key and the error as they were and stays in the loop.
C9_UnknownStanza ==
    [][(Len(io') > Len(io) /\ io'[Len(io) + 1].ev = "read"
            /\ io'[Len(io) + 1].st.Type \notin HandledTypes) =>
        /\ Len(io') = Len(io) + 2
        /\ io'[Len(io) + 2].ev = "write"
        /\ io'[Len(io) + 2].st = TypeOnly("unsupported")
        /\ io'[Len(io) + 2].ok =>
              /\ stanzas' = stanzas
              /\ fileKey' = fileKey
              /\ err' = err
              /\ pc' = "phase2"]_vars

C9_Witness ==
    /\ pc = "phase2"
    /\ Len(io) >= 2
    /\ io[Len(io) - 1].ev = "read"
    /\ io[Len(io) - 1].st.Type \in {"file-key", "recipient-stanza"}
    /\ io[Len(io) - 1].st.Type \notin HandledTypes
    /\ io[Len(io)].st = TypeOnly("unsupported")
    /\ (Len(stanzas) > 0 \/ ~fileKey.nil)

\* The number of writes at the head of the log.
LeadingWrites ==
    CHOOSE k \in 0..Len(io) :
        /\ \A i \in 1..k : io[i].ev = "write"
        /\ k = Len(io) \/ io[k + 1].ev # "write"

\* C10: before it reads anything Wrap writes the target stanza with the
\* encoding (add-identity exactly for a Recipient made by Identity.Recipient),
\* then wrap-file-key with the file key as body, then done; a write that
\* fails is the last thing written and Wrap leaves.
C10_WrapPhase1 ==
    call = "Wrap" =>
        LET derived == r \in {IdentityRecipient(i) : i \in Identities}
            expected ==
                <<[Type |-> IF derived THEN "add-identity" ELSE "add-recipient",
                   Args |-> <<r.encoding>>, Body |-> NilBytes],
                  [Type |-> "wrap-file-key", Args |-> << >>, Body |-> inKey],
                  [Type |-> "done", Args |-> << >>, Body |-> NilBytes]>>
            k == LeadingWrites
        IN  /\ k <= 3
            /\ \A i \in 1..k :
                  /\ io[i].st = expected[i]
                  /\ ~io[i].ok => (i = Len(io) /\ Leaving /\ err.set /\ stanzas = << >>)
            /\ (pc = "phase2" \/ k < Len(io)) =>
                  (k = 3 /\ \A i \in 1..3 : io[i].ok)

C10_Witness ==
    /\ call = "Wrap" /\ r.identity
    /\ Len(Reads) >= 1
    /\ LeadingWrites = 3

\* C11: before it reads anything Unwrap writes add-identity with the
\* identity's encoding, then one recipient-stanza per header stanza, in the
\* header's order, with arguments "0", the stanza's type and the stanza's own
\* arguments and with the stanza's body, then done; the caller's list of
\* stanzas stays what it was.
C11_UnwrapPhase1 ==
    call = "Unwrap" =>
        LET n == Len(inStanzas)
            expected(i) ==
                IF i = 1
                THEN [Type |-> "add-identity", Args |-> <<r.encoding>>,
                      Body |-> NilBytes]
                ELSE IF i = n + 2
                THEN [Type |-> "done", Args |-> << >>, Body |-> NilBytes]
                ELSE [Type |-> "recipient-stanza",
                      Args |-> <<"0", HeaderStanza(i - 1).Type>>
                                   \o HeaderStanza(i - 1).Args,
                      Body |-> HeaderStanza(i - 1).Body]
            k == LeadingWrites
        IN  /\ inStanzas = [i \in 1..n |-> HeaderStanza(i)]
            /\ k <= n + 2
            /\ \A i \in 1..k :
                  /\ io[i].st = expected(i)
                  /\ ~io[i].ok => i = Len(io)
            /\ (pc = "phase2" \/ k < Len(io)) =>
                  (k = n + 2 /\ \A i \in 1..k : io[i].ok)

C11_Witness ==
    /\ call = "Unwrap"
    /\ Len(inStanzas) = 2
    /\ LeadingWrites = 4
    /\ Len(Reads) >= 1

\* C12: when the plugin process exits with a status other than zero, Wrap or
\* Unwrap returns an error, also when the plugin had sent a complete
\* response ending in done.
C12_NonZeroExitReported ==
    (pc = "returned" /\ cc.proc = "reaped" /\ cc.status # 0) => err.set

\* C13: once the session is closed (pipes closed, interrupt sent) the child
\* is eventually reaped and Close, hence Wrap or Unwrap, eventually returns,
\* whatever the plugin does.
C13_CloseReturns ==
    (pc = "wait") ~> (pc = "returned" /\ cc.proc = "reaped")

\* The reads that follow place i of the log.
ReadsAfter(i) == {j \in i + 1..Len(io) : io[j].ev = "read"}

\* The file-key stanzas with a body that Unwrap took and answered.
KeptFileKeys ==
    {i \in AcceptedFileKeys : len(io[i].st.Body) > 0 /\ io[i + 1].ok}

\* C17 as stated, for the stanzas it names first: a stanza of unknown type
\* or a recipient-stanza read after an accepted file key makes Unwrap return
\* an error instead of the key.
C17_OnlyPromptsAfterFileKey ==
    (call = "Unwrap" /\ pc = "returned") =>
        \A i \in KeptFileKeys :
            (\E j \in ReadsAfter(i) : io[j].st.Type \notin UnwrapTypes) =>
                (err.set /\ fileKey = NilBytes)

\* C17: after Unwrap accepted a file-key with a body, msg, request-public,
\* request-secret, stanzas of unknown type and recipient-stanza may follow
\* before done and Unwrap still returns that key; of the stanza types only a
\* second file-key or an error makes it return an error instead of the key.
C17_AfterFileKey ==
    (call = "Unwrap" /\ pc = "returned") =>
        \A i \in KeptFileKeys :
            /\ (\E j \in ReadsAfter(i) : io[j].st.Type \in {"file-key", "error"})
                  => (err.set /\ fileKey = NilBytes)
            /\ (/\ DoneRead
                /\ \A j \in ReadsAfter(i) :
                      io[j].st.Type \notin {"file-key", "error"})
                  => (~err.set /\ fileKey = io[i].st.Body)

C17_Witness ==
    /\ call = "Unwrap" /\ pc = "returned"
    /\ \E i \in KeptFileKeys :
          /\ \E j \in ReadsAfter(i) : io[j].st.Type = "recipient-stanza"
          /\ fileKey = io[i].st.Body
    /\ DoneRead /\ ~err.set

\* The stanzas or keys the call took and answered with ok.
AcceptedResults ==
    {i \in 1..Len(io) - 1 :
        /\ io[i].ev = "read"
        /\ io[i].st.Type = (IF call = "Wrap" THEN "recipient-stanza" ELSE "file-key")
        /\ len(io[i].st.Body) > 0
        /\ io[i + 1].ev = "write" /\ io[i + 1].st = TypeOnly("ok") /\ io[i + 1].ok}

\* C19: a call that leaves with stanzas or a file key leaves with no error
\* and has read done; a call that leaves with an error leaves with no
\* stanzas and no key, whatever it had collected.
C19_ResultDiscipline ==
    Leaving =>
        /\ (stanzas # << >> \/ ~fileKey.nil) => (~err.set /\ DoneRead)
        /\ err.set => (stanzas = << >> /\ fileKey = NilBytes)

C19_Witness ==
    /\ pc = "returned" /\ err.set
    /\ AcceptedResults # {}
    /\ stanzas = << >> /\ fileKey = NilBytes

\* The place of the last stanza read or written (or failed read) before
\* place j of the log, 0 if there is none; callbacks are not on the wire.
PrevWire(j) ==
    IF j > 1 /\ io[j - 1].ev = "call" THEN j - 2 ELSE j - 1

IndexZero(a) == Atoi(a).ok /\ Atoi(a).n = 0

\* The stanza read at place i is one the loop rejects without an answer.
Rejected(i) ==
    LET s == io[i].st
    IN  \/ /\ call = "Wrap" /\ s.Type = "recipient-stanza"
           /\ ~(Len(s.Args) >= 2 /\ IndexZero(s.Args[1]))
        \/ /\ call = "Unwrap" /\ s.Type = "file-key"
           /\ \/ ~(Len(s.Args) = 1 /\ IndexZero(s.Args[1]))
              \/ \E k \in KeptFileKeys : k < i

\* C20: in phase 2 every write is the one reply to the stanza read just
\* before it, a stanza is read only after the reply to the one before it was
\* written, and nothing is written in reply to done or to a stanza rejected
\* as malformed or duplicated, which is the last thing on the wire.
C20_HalfDuplex ==
    LET k == LeadingWrites
    IN  \A j \in k + 1..Len(io) :
            /\ io[j].ev = "write" =>
                  (PrevWire(j) > k /\ io[PrevWire(j)].ev = "read")
            /\ (io[j].ev \in {"read", "readfail"} /\ PrevWire(j) > k) =>
                  (io[PrevWire(j)].ev = "write" /\ io[PrevWire(j)].ok)
            /\ io[j].ev = "readfail" => j = Len(io)
            /\ (io[j].ev = "read" /\ (io[j].st.Type = "done" \/ Rejected(j))) =>
                  j = Len(io)

C20_Witness ==
    /\ Len(Reads) = 3 /\ DoneRead
    /\ Len(io) - LeadingWrites >= 6
    /\ io[Len(io) - 1].ev = "write" /\ io[Len(io) - 1].ok
    /\ \E i \in 1..Len(io) : io[i].ev = "call"

\* What ends at place e.from of the buffer and what the call e wrote.
Before(e) == SubSeq(tf.Buf, 1, e.from)

Written(e) == SubSeq(tf.Buf, e.from + 1, e.to)

\* C14 as stated: the message HMAC authenticates is the buffer so far, the
\* dashes and the space that follows them.
C14_SpaceCovered ==
    \A i \in 1..Len(calls) :
        calls[i].op = "HMAC" =>
            calls[i].arg = Before(calls[i]) \o Dashes \o <<32>>

\* C14: the message HMAC authenticates is every byte of the buffer so far
\* followed by "---", without the space after it; the line it appends is
\* "--- ", the unpadded base64 of the MAC under the header key, a newline.
C14_HMACCoverage ==
    \A i \in 1..Len(calls) :
        calls[i].op = "HMAC" =>
            LET e == calls[i]
                mac == HmacSha256(Hkdf(tf.fileKey.data, << >>, HeaderInfo), e.arg)
                line == Written(e)
            IN  /\ e.arg = Before(e) \o <<45, 45, 45>>
                /\ line = <<45, 45, 45, 32>> \o b64(mac) \o <<10>>
                /\ Len(line) = 4 + 43 + 1
                /\ \A j \in 5..47 : line[j] \notin {61, 10, 32}

C14_Witness ==
    /\ tpc = "footer"
    /\ \E i \in 1..Len(calls) : calls[i].op = "Body" /\ Len(calls[i].arg) = 49
    /\ calls[Len(calls)].op = "HMAC"
    /\ calls[Len(calls)].to = Len(tf.Buf)

\* The chunks sealed so far, in order.
Chunks == CallsOf({"PayloadChunk", "PayloadChunkFinal"})

\* The 11 bytes, big-endian, of a counter below 2^24.
CounterBytes(n) ==
    [j \in 1..11 |->
        IF j = 11 THEN n % 256
        ELSE IF j = 10 THEN (n \div 256) % 256
        ELSE IF j = 9 THEN (n \div 65536) % 256
        ELSE 0]

\* The counter of the nonce a chunk was sealed under, and its last byte.
CounterOf(e) == SubSeq(e.nonce, 1, 11)

FlagOf(e) == e.nonce[12]

\* C15: on a new TestFile the i-th chunk sealed (from 0) is sealed under the
\* counter i, with flag 0 if PayloadChunk sealed it and 1 if
\* PayloadChunkFinal did; the counter kept is the number of PayloadChunk
\* calls; at most one chunk carries flag 1 and it is the last.
C15_ChunkNonces ==
    LET S == Chunks
    IN  /\ \A i \in 1..Len(S) :
              /\ CounterOf(S[i]) = CounterBytes(i - 1)
              /\ FlagOf(S[i]) = (IF S[i].op = "PayloadChunkFinal" THEN 1 ELSE 0)
              /\ FlagOf(S[i]) = 1 => i = Len(S)
        /\ SubSeq(tf.nonce, 1, 11)
              = CounterBytes(Len(CallsOf({"PayloadChunk"})))

\* a is below b as big-endian numbers of the same length.
Below(a, b) ==
    \E j \in 1..Len(a) :
        /\ a[j] < b[j]
        /\ \A m \in 1..j - 1 : a[m] = b[m]

\* C18: over successive PayloadChunk calls the counter sealed under grows
\* strictly, so that no two chunks are sealed under the same nonce.
C18_CounterIncreases ==
    LET S == CallsOf({"PayloadChunk"})
    IN  \A i \in 1..Len(S) - 1 : Below(CounterOf(S[i]), CounterOf(S[i + 1]))

\* C16: for a body of n bytes Body writes n \div 48 lines of 64 base64
\* characters, each encoding the next 48 bytes, then one line, shorter than
\* 64 characters, encoding the n % 48 bytes left, which is empty when none
\* is left, and nothing after it.
C16_BodyWrapping ==
    \A i \in 1..Len(calls) :
        calls[i].op = "Body" =>
            LET body == calls[i].arg
                n == Len(body)
                full == n \div 48
                out == Written(calls[i])
                short == SubSeq(out, 65 * full + 1, Len(out) - 1)
            IN  /\ Len(out) >= 65 * full + 1
                /\ \A k \in 1..full :
                      /\ SubSeq(out, 65 * (k - 1) + 1, 65 * (k - 1) + 64)
                            = b64(SubSeq(body, 48 * (k - 1) + 1, 48 * k))
                      /\ out[65 * k] = 10
                /\ short = b64(SubSeq(body, 48 * full + 1, n))
                /\ Len(short) < 64
                /\ n % 48 = 0 <=> short = << >>
                /\ out[Len(out)] = 10
                /\ \A k \in 1..Len(out) : out[k] = 10 =>
                      (k = Len(out) \/ k % 65 = 0)

C16_Witness ==
    /\ \E i \in 1..Len(calls) :
          /\ calls[i].op = "Body" /\ Len(calls[i].arg) = 96
          /\ Len(Written(calls[i])) = 131
    /\ tpc = "header"

====
